---- MODULE Spec2Model ----
(***************************************************************************)
(* TriPlan Connection Guardian: the PivotProvider state machine            *)
(* (context/PivotContext), the pivot engine's pure functions               *)
(* (services/pivotEngine.ts) and the notification service's throttle       *)
(* (services/notificationService).                                         *)
(*                                                                         *)
(* Units.  Time is in milliseconds since local midnight of day 0, so the   *)
(* source's millisecond constants appear literally.  Positions lie on one  *)
(* meridian and are measured in hectometres (100 m) along it, so that      *)
(* haversineKm reduces to the absolute difference of the two latitudes.    *)
(* Durations kept in a tick or a plan are integral: minutesRemaining in    *)
(* minutes (the clock moves in whole minutes), projectedArrivalMin in      *)
(* seconds.                                                                *)
(***************************************************************************)
EXTENDS Integers, Sequences, FiniteSets, TLC

\* ------------------------------------------------------------------ bounds
MaxClock == 2
MaxStarts == 2
MaxPipelines == 2

\* --------------------------------------------------------------- constants
ALERT_THRESHOLD_PCT == 60
ALERT_COOLDOWN_MS == 3 * 60000
SAFE_THRESHOLD_PCT == 25
BUFFER_MIN == 7
GRACE_MS == 60000
NOTIFY_RESET_MS == 180000
MS_PER_MIN == 60000
MS_PER_HOUR == 3600000
MS_PER_DAY == 86400000
NO_SPEED_ARRIVAL == 999 * 60
PICKUP_WAIT_S == 5 * 60
BIKE_TAXI_BELOW_HM == 20
CAB_ABOVE_HM == 80
AT_CONNECTION_HM == 1

\* The clock starts at 08:01 of day 1 and moves in steps of two minutes.
TimeStep == 2 * MS_PER_MIN
T0 == MS_PER_DAY + 8 * MS_PER_HOUR + MS_PER_MIN

null == [isNull |-> TRUE]

Max(a, b) == IF a >= b THEN a ELSE b
Min(a, b) == IF a <= b THEN a ELSE b
Abs(a) == IF a >= 0 THEN a ELSE -a

\* ------------------------------------------------------------ pivot engine

\* Variant: no grace period before the deadline rolls over.
parseTimeTodayNoGrace(hhmm, t) ==
    LET midnight == (t \div MS_PER_DAY) * MS_PER_DAY
        today == midnight + hhmm[1] * MS_PER_HOUR + hhmm[2] * MS_PER_MIN
    IN  IF today < t THEN today + MS_PER_DAY ELSE today

\* "HH:MM" is held as the pair the split(':').map(Number) produces.
parseTimeToday(hhmm, t) ==
    LET h == hhmm[1]
        m == hhmm[2]
        midnight == (t \div MS_PER_DAY) * MS_PER_DAY
        today == midnight + h * MS_PER_HOUR + m * MS_PER_MIN
    IN  IF today < t - GRACE_MS THEN today + MS_PER_DAY ELSE today

haversineKm(lat1, lat2) == Abs(lat2 - lat1)

\* Math.round(100 / (1 + e^(-5 (ratio - 1)))) reaches p exactly when
\* ratio >= 1 + ln((p - 0.5) / (100.5 - p)) / 5.  SigmoidSteps lists these
\* ratios times 10000 for p = 3 .. 95; below the first the clamp gives 2.
SigmoidSteps ==
    << 2673, 3367, 3890, 4313, 4668, 4976, 5248, 5492, 5715, 5919, 6109,
       6286, 6452, 6609, 6758, 6899, 7035, 7165, 7290, 7410, 7527, 7640,
       7750, 7856, 7960, 8062, 8161, 8258, 8353, 8447, 8539, 8629, 8718,
       8806, 8893, 8979, 9064, 9148, 9231, 9314, 9396, 9478, 9559, 9640,
       9720, 9800, 9880, 9960, 10041, 10121, 10201, 10281, 10361, 10442,
       10523, 10605, 10687, 10770, 10853, 10937, 11022, 11108, 11195,
       11283, 11372, 11462, 11554, 11648, 11743, 11840, 11939, 12041,
       12145, 12251, 12361, 12474, 12591, 12711, 12836, 12966, 13102,
       13243, 13392, 13549, 13715, 13892, 14082, 14286, 14509, 14753,
       15025, 15333, 15688 >>

\* The rounded sigmoid as a function of the ratio times 10000, rounded down;
\* from the last step on it is 95.
SigmoidPct ==
    [ q \in 0..SigmoidSteps[Len(SigmoidSteps)] |->
        2 + Cardinality({ i \in 1..Len(SigmoidSteps) : SigmoidSteps[i] <= q }) ]

\* Variant: no buffer is subtracted from the minutes remaining.
calculateMissChanceNoBuffer(currentSpeedKmh, distanceKm, minutesRemaining) ==
    LET safeSpeed == Max(currentSpeedKmh, 1)
        ratio == (6 * distanceKm * 10000) \div (minutesRemaining * safeSpeed)
        sigmoid == IF ratio >= SigmoidSteps[Len(SigmoidSteps)] THEN 95
                   ELSE SigmoidPct[ratio]
    IN  IF minutesRemaining <= 0 THEN 95
        ELSE IF distanceKm <= AT_CONNECTION_HM THEN 2
        ELSE Min(95, Max(2, sigmoid))

\* distanceKm is in hectometres: requiredSpeed = (d/10) / eff * 60 km/h and
\* ratio = requiredSpeed / safeSpeed = 6 d / (eff * safeSpeed).
calculateMissChance(currentSpeedKmh, distanceKm, minutesRemaining) ==
    LET effectiveMinutes == minutesRemaining - BUFFER_MIN
        safeSpeed == Max(currentSpeedKmh, 1)
        ratio == (6 * distanceKm * 10000) \div (effectiveMinutes * safeSpeed)
        sigmoid == IF ratio >= SigmoidSteps[Len(SigmoidSteps)] THEN 95
                   ELSE SigmoidPct[ratio]
    IN  IF effectiveMinutes <= 0 THEN 95
        ELSE IF distanceKm <= AT_CONNECTION_HM THEN 2
        ELSE Min(95, Max(2, sigmoid))

buildTick(userLat, speedKmh, leg, t) ==
    LET departureMs == parseTimeToday(leg.departureTime, t)
        minutesRemaining == Max(0, (departureMs - t) \div MS_PER_MIN)
        distanceRemainingKm == haversineKm(userLat, leg.connectionLat)
        projectedArrivalMin ==
            IF speedKmh >= 1
            THEN (distanceRemainingKm * 360) \div speedKmh
            ELSE NO_SPEED_ARRIVAL
    IN  [ missChancePct |->
              calculateMissChance(speedKmh, distanceRemainingKm, minutesRemaining),
          minutesRemaining |-> minutesRemaining,
          distanceRemainingKm |-> distanceRemainingKm,
          projectedArrivalMin |-> projectedArrivalMin,
          speedKmh |-> speedKmh ]

\* 55 % of the way to the connection; the perpendicular offset (0.4 % of
\* the distance) goes to the longitude.
deriveRescuePickup(userLat, destLat) ==
    [ lat |-> userLat + (55 * (destLat - userLat)) \div 100,
      lng |-> 0 - (4 * (destLat - userLat)) \div 1000,
      name |-> "Next signal junction" ]

\* The straight line at 60 km/h (6 s per hectometre).
straightLineFallback(fromLat, toLat) ==
    [ distanceM |-> 100 * Abs(toLat - fromLat),
      durationS |-> 6 * Abs(toLat - fromLat) ]

\* What calculateRoute resolves to.  ORS_KEY is unset in the configuration
\* modelled, so every call takes the straight-line branch.
calculateRoute(fromLat, toLat) == { straightLineFallback(fromLat, toLat) }

\* Variant: the band limits belong to the outer bands.
chooseRescueModeClosedBands(tick) ==
    IF tick.distanceRemainingKm <= BIKE_TAXI_BELOW_HM THEN "bike_taxi"
    ELSE IF tick.distanceRemainingKm >= CAB_ABOVE_HM THEN "cab"
    ELSE "auto"

chooseRescueMode(tick) ==
    IF tick.distanceRemainingKm < BIKE_TAXI_BELOW_HM THEN "bike_taxi"
    ELSE IF tick.distanceRemainingKm > CAB_ABOVE_HM THEN "cab"
    ELSE "auto"

\* The part of buildRescueRoute after calculateRoute has resolved to route.
buildRescueRoute(userLat, leg, tick, route) ==
    LET pickup == deriveRescuePickup(userLat, leg.connectionLat)
        rescueTotal == route.durationS + PICKUP_WAIT_S
                         + 24 * haversineKm(pickup.lat, leg.connectionLat)
        diff == tick.projectedArrivalMin - rescueTotal
    IN  [ route |-> route,
          pickup |-> pickup,
          savingMin |-> IF diff <= 0 THEN 0 ELSE (diff + 30) \div 60,
          mode |-> chooseRescueMode(tick) ]

MODE_LABELS ==
    [ train |-> "Train", flight |-> "Flight", bus |-> "Bus",
      metro |-> "Metro", ferry |-> "Ferry", rideshare |-> "Cab" ]
RESCUE_LABELS ==
    [ auto |-> "Auto-Rickshaw", bike_taxi |-> "Bike Taxi (Rapido)",
      cab |-> "Cab (Ola/Uber)" ]

\* Variant: a template that produces no text.
buildFallbackAiMessageEmpty(tick, leg, pickupName, rescueMode, savingMin) ==
    << >>

\* Template strings are the sequence of their literal and interpolated parts.
buildFallbackAiMessage(tick, leg, pickupName, rescueMode, savingMin) ==
    << "Traffic detected on your route. At your current speed", tick.speedKmh,
       "you have a", tick.missChancePct, "chance of missing the",
       MODE_LABELS[leg.nextMode], leg.nextProvider, "departing at",
       leg.departureTime, "Get off at the", pickupName,
       RESCUE_LABELS[rescueMode], "can save", savingMin,
       "Tap Navigate Rescue Path to start." >>

\* The external phrasing provider (services/groq): text built from the
\* structured summary it is given; whether a call succeeds is decided by
\* the action that completes it.
getPivotAlertMessage(pivotInput) ==
    << "phrasing provider message", pivotInput.connectionName,
       pivotInput.missChancePct, pivotInput.rescueMode >>

getPivotNotificationTitle(pivotInput) ==
    << "phrasing provider title", pivotInput.missChancePct >>

\* ------------------------------------------------------------------ inputs
\* A two-leg itinerary: a train leaving today at 08:03 and a flight leaving
\* at 08:02 the day after (an "HH:MM" deadline carries no date).
LegA == [ connectionName |-> "Chennai Central", connectionLat |-> 200,
          departureTime |-> <<8, 3>>, nextMode |-> "train",
          nextProvider |-> "IRCTC" ]
LegB == [ connectionName |-> "Airport", connectionLat |-> 300,
          departureTime |-> <<8, 2>>, nextMode |-> "flight",
          nextProvider |-> "IndiGo" ]
LegLists == { <<>>, <<LegA, LegB>> }

\* coords of a position sample; speed is <<>> when the platform reports null.
Samples ==
    { [ lat |-> 0, speed |-> <<-1>> ],
      [ lat |-> 100, speed |-> <<>> ],
      [ lat |-> 300, speed |-> <<5>> ] }

\* ------------------------------------------------------------------- state
VARIABLES
    now,                   \* Date.now()
    state,                 \* useState<PivotState>
    locationSubscription,  \* ref: id of the subscription held, 0 for null
    lastAlertAt,           \* ref
    isProcessingAlert,     \* ref
    guardedLegsRef,        \* ref
    currentLegIndexRef,    \* ref
    liveSubs,              \* subscriptions the position source delivers to
    startCalls,            \* startGuardian invocations suspended at an await
    nStarts,               \* history: number of startGuardian invocations that reached an await
    pipelines,             \* alert computations in flight (handleGpsTick past its first await)
    alertShown,            \* notificationService._alertShown
    timers,                \* due times of the pending setTimeout resets
    begins,                \* history: when each alert computation began, and whether stopGuardian has run since
    lastOp,                \* history: which of the transitions the properties single out ran last
    engineCall,            \* a call of one of the pivot engine's functions on its own: the function and its arguments
    engineResult           \* what that call returned

vars == << now, state, locationSubscription, lastAlertAt, isProcessingAlert,
           guardedLegsRef, currentLegIndexRef, liveSubs,
           startCalls, nStarts, pipelines, alertShown, timers, begins, lastOp,
           engineCall, engineResult >>

subVars == << locationSubscription, liveSubs >>
legRefs == << guardedLegsRef, currentLegIndexRef >>
guardRefs == << lastAlertAt, isProcessingAlert >>
startVars == << startCalls, nStarts >>
notifVars == << alertShown, timers >>
engineVars == << engineCall, engineResult >>
guardianVars == << now, state, subVars, legRefs, guardRefs, startVars,
                   pipelines, notifVars, begins, lastOp >>

defaultState ==
    [ status |-> "idle", currentTick |-> null, activeAlert |-> null,
      guardedLegs |-> <<>>, currentLegIndex |-> 0 ]

GuardianInit ==
    /\ now = T0
    /\ state = defaultState
    /\ locationSubscription = 0
    /\ lastAlertAt = 0
    /\ isProcessingAlert = FALSE
    /\ guardedLegsRef = <<>>
    /\ currentLegIndexRef = 0
    /\ liveSubs = {}
    /\ startCalls = <<>>
    /\ nStarts = 0
    /\ pipelines = <<>>
    /\ alertShown = FALSE
    /\ timers = {}
    /\ begins = <<>>
    /\ lastOp = "other"

Init ==
    /\ GuardianInit
    /\ engineCall = null
    /\ engineResult = null

\* ---------------------------------------------------------- state updaters
\* The functions handed to setState, each from the previous PivotState.
WatchingState(legs) ==
    [ status |-> "watching", currentTick |-> null, activeAlert |-> null,
      guardedLegs |-> legs, currentLegIndex |-> 0 ]

\* Variant: the tick is refreshed only while the session is watching.
TickUpdaterOnlyWatching(prev, tick) ==
    IF prev.status = "watching" THEN [ prev EXCEPT !.currentTick = tick ]
    ELSE prev

\* Variant: a new tick is also written into the alert on display.
TickUpdaterIntoAlert(prev, tick) ==
    IF prev.activeAlert = null THEN [ prev EXCEPT !.currentTick = tick ]
    ELSE [ prev EXCEPT !.currentTick = tick, !.activeAlert.tick = tick ]

TickUpdater(prev, tick) == [ prev EXCEPT !.currentTick = tick ]

AdvanceUpdater(prev, legIdx) ==
    [ prev EXCEPT !.currentLegIndex = legIdx + 1,
                  !.status = "watching",
                  !.activeAlert = null ]

\* Variant: a safe sample leaves a raised alert in place.
SafeUpdaterKeepsAlert(prev) == prev

\* Variant: a safe sample returns to watching without clearing the alert.
SafeUpdaterKeepsPayload(prev) ==
    IF prev.status = "alert" THEN [ prev EXCEPT !.status = "watching" ]
    ELSE prev

SafeUpdater(prev) ==
    IF prev.status = "alert"
    THEN [ prev EXCEPT !.status = "watching", !.activeAlert = null ]
    ELSE prev

AlertUpdater(prev, alert) ==
    [ prev EXCEPT !.status = "alert", !.activeAlert = alert ]

\* Variant: dismissal also drops the displayed tick.
DismissUpdaterDropsTick(prev) ==
    [ prev EXCEPT !.status = "watching", !.activeAlert = null,
                  !.currentTick = null ]

DismissUpdater(prev) ==
    [ prev EXCEPT !.status = "watching", !.activeAlert = null ]

\* Variant: accepting the plan clears it.
ActivateUpdaterClearsAlert(prev) ==
    [ prev EXCEPT !.status = "pivoting", !.activeAlert = null ]

ActivateUpdater(prev) == [ prev EXCEPT !.status = "pivoting" ]

\* -------------------------------------------------------- handler conditions
\* Variant: the advance does not stop at the last leg.
ShouldAdvancePastLast(tick, legIdx, legs) ==
    tick.minutesRemaining <= 0 /\ legIdx < Len(legs)

ShouldAdvance(tick, legIdx, legs) ==
    tick.minutesRemaining <= 0 /\ legIdx < Len(legs) - 1

IsSafe(tick) == tick.missChancePct < SAFE_THRESHOLD_PCT

\* Variant: the cooldown lasts twice as long.
CooldownElapsedAfterTwice(t, last) == t - last > 2 * ALERT_COOLDOWN_MS

\* Variant: no cooldown between computations.
CooldownElapsedAtOnce(t, last) == t - last >= 0

CooldownElapsed(t, last) == t - last > ALERT_COOLDOWN_MS

ShouldTrigger(tick, processing, t, last) ==
    /\ tick.missChancePct > ALERT_THRESHOLD_PCT
    /\ ~processing
    /\ CooldownElapsed(t, last)

SpeedKmh(coords) ==
    LET speedMs == IF coords.speed = <<>> THEN 0 ELSE coords.speed[1]
    IN  Max(0, (speedMs * 36) \div 10)

\* ------------------------------------------------------------ startGuardian
RemoveAt(seq, i) == SubSeq(seq, 1, i - 1) \o SubSeq(seq, i + 1, Len(seq))

\* Up to the first await: an empty list returns at once.
StartGuardian(legs) ==
    /\ IF Len(legs) = 0
       THEN /\ lastOp' = "other"
            /\ UNCHANGED startVars
       ELSE /\ nStarts < MaxStarts
            /\ nStarts' = nStarts + 1
            /\ startCalls' =
                  Append(startCalls, [ pc |-> "permissions", legs |-> legs ])
            /\ lastOp' = "other"
    /\ UNCHANGED << now, state, subVars, legRefs, guardRefs, pipelines,
                    notifVars, begins >>
    /\ UNCHANGED engineVars

\* Variant: a denied permission does not end the call.
PermissionsResolvedIgnoresDenial(c, granted) ==
    /\ startCalls[c].pc = "permissions"
    /\ guardedLegsRef' = startCalls[c].legs
    /\ currentLegIndexRef' = 0
    /\ state' = WatchingState(startCalls[c].legs)
    /\ liveSubs' = liveSubs \ {locationSubscription}
    /\ startCalls' = [ startCalls EXCEPT ![c].pc = "watch" ]
    /\ lastOp' = "permissionsGranted"
    /\ UNCHANGED << now, locationSubscription, nStarts, guardRefs,
                    pipelines, notifVars, begins >>
    /\ UNCHANGED engineVars

\* The permission requests resolve; on grant the handler runs up to the
\* await of watchPositionAsync.
PermissionsResolved(c, granted) ==
    /\ startCalls[c].pc = "permissions"
    /\ IF granted
       THEN /\ guardedLegsRef' = startCalls[c].legs
            /\ currentLegIndexRef' = 0
            /\ state' = WatchingState(startCalls[c].legs)
            /\ liveSubs' = liveSubs \ {locationSubscription}
            /\ startCalls' = [ startCalls EXCEPT ![c].pc = "watch" ]
            /\ lastOp' = "permissionsGranted"
       ELSE /\ startCalls' = RemoveAt(startCalls, c)
            /\ lastOp' = "other"
            /\ UNCHANGED << legRefs, state, liveSubs >>
    /\ UNCHANGED << now, locationSubscription, nStarts, guardRefs,
                    pipelines, notifVars, begins >>
    /\ UNCHANGED engineVars

\* A subscription object that is neither live nor held by the ref is out
\* of the program's reach, so its identifier names the next new object.
NewSubscription ==
    CHOOSE id \in 1..(Cardinality(liveSubs) + 2) :
        id \notin liveSubs \cup {locationSubscription}

\* watchPositionAsync resolves with a new subscription, or rejects.
WatchResolved(c, ok) ==
    /\ startCalls[c].pc = "watch"
    /\ startCalls' = RemoveAt(startCalls, c)
    /\ IF ok
       THEN /\ locationSubscription' = NewSubscription
            /\ liveSubs' = liveSubs \cup {NewSubscription}
            /\ lastOp' = "watchResolved"
       ELSE /\ lastOp' = "other"
            /\ UNCHANGED subVars
    /\ UNCHANGED << now, state, nStarts, legRefs, guardRefs, pipelines,
                    notifVars, begins >>
    /\ UNCHANGED engineVars

\* ------------------------------------------------------ notification service
\* The last instant of the clock; a reset due later never runs.
Horizon == T0 + MaxClock * TimeStep

\* sendPivotNotification: null while the throttle flag is set, otherwise the
\* flag is set, a reset is scheduled and the alert is shown.
sendPivotNotification(shown, pending, t) ==
    IF shown
    THEN [ result |-> "null", alertShown |-> shown, timers |-> pending ]
    ELSE [ result |-> "alert-shown", alertShown |-> TRUE,
           timers |-> IF t + NOTIFY_RESET_MS <= Horizon
                      THEN pending \cup { t + NOTIFY_RESET_MS }
                      ELSE pending ]

dismissAllPivotNotifications == FALSE

\* A scheduled reset runs.
TimerFire(t) ==
    /\ t \in timers
    /\ t <= now
    /\ alertShown' = FALSE
    /\ timers' = timers \ {t}
    /\ lastOp' = "other"
    /\ UNCHANGED << now, state, subVars, legRefs, guardRefs, startVars,
                    pipelines, begins >>
    /\ UNCHANGED engineVars

\* ------------------------------------------------------------- stopGuardian
\* The history flag stopped is set in every record of seq.
MarkStopped(seq) ==
    IF seq = <<>> THEN <<>>
    ELSE [ i \in 1..Len(seq) |-> [ seq[i] EXCEPT !.stopped = TRUE ] ]

StopGuardian ==
    /\ liveSubs' = liveSubs \ {locationSubscription}
    /\ locationSubscription' = 0
    /\ lastAlertAt' = 0
    /\ isProcessingAlert' = FALSE
    /\ state' = defaultState
    /\ alertShown' = dismissAllPivotNotifications
    /\ pipelines' = MarkStopped(pipelines)
    /\ begins' = MarkStopped(begins)
    /\ lastOp' = "stopGuardian"
    /\ UNCHANGED << now, legRefs, startVars, timers >>
    /\ UNCHANGED engineVars

\* ------------------------------------------------------------ handleGpsTick
\* The local variables of a handleGpsTick invocation suspended in its alert
\* branch: pc is "try" from the first buildRescueRoute until Promise.all
\* settles and "catch" while the second buildRescueRoute is awaited.  What
\* runs between the awaits of one block reads and writes these locals only,
\* so each block is one step.  stopped is a history flag, set once
\* stopGuardian has run since.
NewPipeline(coords, speedKmh, leg, legIdx, tick) ==
    [ pc |-> "try", lat |-> coords.lat, speedKmh |-> speedKmh, leg |-> leg,
      legIdx |-> legIdx, tick |-> tick, stopped |-> FALSE ]

\* A position sample is delivered: the handler up to its return or, when an
\* alert is triggered, up to the await inside buildRescueRoute.
GpsTick(coords) ==
    /\ liveSubs # {}
    /\ UNCHANGED << now, subVars, guardedLegsRef, startVars, notifVars >>
    /\ LET legs == guardedLegsRef
           legIdx == currentLegIndexRef
       IN  IF Len(legs) = 0 \/ legIdx >= Len(legs)
           THEN /\ lastOp' = "other"
                /\ UNCHANGED << state, currentLegIndexRef, guardRefs, pipelines,
                                begins >>
           ELSE \E tick \in {buildTick(coords.lat, SpeedKmh(coords), legs[legIdx + 1], now)} :
                LET leg == legs[legIdx + 1]
                    speedKmh == SpeedKmh(coords)
                    ticked == TickUpdater(state, tick)
                IN  IF ShouldAdvance(tick, legIdx, legs)
                    THEN /\ currentLegIndexRef' = legIdx + 1
                         /\ state' = AdvanceUpdater(ticked, legIdx)
                         /\ lastOp' = "gpsAdvance"
                         /\ UNCHANGED << guardRefs, pipelines, begins >>
                    ELSE IF IsSafe(tick)
                    THEN /\ state' = SafeUpdater(ticked)
                         /\ lastOp' = IF state.status = "alert"
                                      THEN "gpsSafeInAlert" ELSE "other"
                         /\ UNCHANGED << currentLegIndexRef, guardRefs, pipelines,
                                         begins >>
                    ELSE IF ShouldTrigger(tick, isProcessingAlert, now, lastAlertAt)
                    THEN /\ Len(begins) < MaxPipelines
                         /\ state' = ticked
                         /\ isProcessingAlert' = TRUE
                         /\ lastAlertAt' = now
                         /\ pipelines' =
                               Append(pipelines,
                                      NewPipeline(coords, speedKmh, leg, legIdx,
                                                  tick))
                         /\ begins' = Append(begins, [ at |-> now, stopped |-> FALSE ])
                         /\ lastOp' = "other"
                         /\ UNCHANGED currentLegIndexRef
                    ELSE /\ state' = ticked
                         /\ lastOp' = "other"
                         /\ UNCHANGED << currentLegIndexRef, guardRefs, pipelines,
                                         begins >>
    /\ UNCHANGED engineVars

PivotInput(p, plan) ==
    [ currentSpeedKmh |-> p.speedKmh,
      distanceRemainingKm |-> p.tick.distanceRemainingKm,
      minutesRemaining |-> p.tick.minutesRemaining,
      missChancePct |-> p.tick.missChancePct,
      connectionName |-> p.leg.connectionName,
      nextProvider |-> p.leg.nextProvider,
      nextMode |-> p.leg.nextMode,
      departureTime |-> p.leg.departureTime,
      pickupLandmark |-> plan.pickup.name,
      rescueMode |-> plan.mode,
      rescueSavingMin |-> plan.savingMin ]

\* The PivotAlert object built from the locals p of a computation.
MakeAlert(p, plan, aiMessage, t) ==
    [ tick |-> p.tick,
      aiMessage |-> aiMessage,
      rescueRoute |-> plan.route,
      rescuePickupLat |-> plan.pickup.lat,
      rescuePickupLng |-> plan.pickup.lng,
      rescuePickupName |-> plan.pickup.name,
      rescueMode |-> plan.mode,
      rescueSavingMin |-> plan.savingMin,
      triggeredAt |-> t ]

\* Variant: the guard is not released at the end of a computation.
CommitAlertKeepsGuard(p, plan, aiMessage) ==
    LET sent == sendPivotNotification(alertShown, timers, now)
        alert == MakeAlert(pipelines[p], plan, aiMessage, now)
    IN  /\ alertShown' = sent.alertShown
        /\ timers' = sent.timers
        /\ state' = AlertUpdater(state, alert)
        /\ UNCHANGED isProcessingAlert
        /\ pipelines' = RemoveAt(pipelines, p)

\* The end of either branch: notification, setState, then the finally block.
CommitAlert(p, plan, aiMessage) ==
    LET sent == sendPivotNotification(alertShown, timers, now)
        alert == MakeAlert(pipelines[p], plan, aiMessage, now)
    IN  /\ alertShown' = sent.alertShown
        /\ timers' = sent.timers
        /\ state' = AlertUpdater(state, alert)
        /\ isProcessingAlert' = FALSE
        /\ pipelines' = RemoveAt(pipelines, p)

\* The try block: buildRescueRoute resolves with route, then Promise.all
\* over the two phrasing requests settles: fulfilled when both succeed,
\* rejected as soon as one fails, which enters the catch block and its
\* second buildRescueRoute.
PhrasingDone(p, route, ok) ==
    /\ pipelines[p].pc = "try"
    /\ IF ok
       THEN /\ LET q == pipelines[p]
                   plan == buildRescueRoute(q.lat, q.leg, q.tick, route)
               IN  CommitAlert(p, plan, getPivotAlertMessage(PivotInput(q, plan)))
            /\ lastOp' = "alertCommitted"
       ELSE /\ pipelines' = [ pipelines EXCEPT ![p].pc = "catch" ]
            /\ lastOp' = "other"
            /\ UNCHANGED << state, isProcessingAlert, notifVars >>
    /\ UNCHANGED << now, subVars, legRefs, lastAlertAt, startVars, begins >>
    /\ UNCHANGED engineVars

\* The catch block's buildRescueRoute resolves; the template message is used.
FallbackRouteDone(p, route) ==
    /\ pipelines[p].pc = "catch"
    /\ LET q == pipelines[p]
           plan == buildRescueRoute(q.lat, q.leg, q.tick, route)
           fallbackMsg == buildFallbackAiMessage(q.tick, q.leg, plan.pickup.name,
                                                 plan.mode, plan.savingMin)
       IN  CommitAlert(p, plan, fallbackMsg)
    /\ lastOp' = "fallbackCommitted"
    /\ UNCHANGED << now, subVars, legRefs, lastAlertAt, startVars, begins >>
    /\ UNCHANGED engineVars

\* -------------------------------------------------------------- user actions
\* PivotGuardBanner mounts the alert sheet, whose buttons are the only
\* callers of dismissAlert and activatePivot, in this case only.
AlertSheetShown == state.status = "alert" /\ state.activeAlert # null

DismissAlert ==
    /\ AlertSheetShown
    /\ state' = DismissUpdater(state)
    /\ lastOp' = "dismissAlert"
    /\ UNCHANGED << now, subVars, legRefs, guardRefs, startVars, pipelines,
                    notifVars, begins >>
    /\ UNCHANGED engineVars

ActivatePivot ==
    /\ AlertSheetShown
    /\ state' = ActivateUpdater(state)
    /\ lastOp' = "activatePivot"
    /\ UNCHANGED << now, subVars, legRefs, guardRefs, startVars, pipelines,
                    notifVars, begins >>
    /\ UNCHANGED engineVars

\* --------------------------------------------------------------------- time
\* Time passes; resets that are due run first.
AdvanceClock ==
    /\ now < Horizon
    /\ \A t \in timers : t > now
    /\ now' = now + TimeStep
    /\ lastOp' = "other"
    /\ UNCHANGED << state, subVars, legRefs, guardRefs, startVars, pipelines,
                    notifVars, begins >>
    /\ UNCHANGED engineVars

\* The routes calculateRoute can resolve to for the computation p.
RoutesFor(p) ==
    calculateRoute(p.lat, deriveRescuePickup(p.lat, p.leg.connectionLat).lat)

Next ==
    \/ \E legs \in LegLists : StartGuardian(legs)
    \/ \E c \in 1..Len(startCalls), granted \in BOOLEAN :
           PermissionsResolved(c, granted)
    \/ \E c \in 1..Len(startCalls), ok \in BOOLEAN : WatchResolved(c, ok)
    \/ StopGuardian
    \/ \E coords \in Samples : GpsTick(coords)
    \/ \E p \in 1..Len(pipelines), ok \in BOOLEAN :
           \E route \in RoutesFor(pipelines[p]) : PhrasingDone(p, route, ok)
    \/ \E p \in 1..Len(pipelines) :
           \E route \in RoutesFor(pipelines[p]) : FallbackRouteDone(p, route)
    \/ DismissAlert
    \/ ActivatePivot
    \/ \E t \in timers : TimerFire(t)
    \/ AdvanceClock

Spec == Init /\ [][Next]_vars

\* The provider under the scheduling the runtime guarantees: time passes and
\* a due setTimeout callback runs.  Nothing in handleGpsTick, calculateRoute
\* or the phrasing requests bounds the wait for a response, so the responses
\* (PhrasingDone, FallbackRouteDone) carry no fairness condition.
FairSpec ==
    /\ Init
    /\ [][Next]_vars
    /\ WF_vars(AdvanceClock)
    /\ WF_vars(\E t \in timers : TimerFire(t))

\* --------------------------------------------------- the engine on its own
\* The pivot engine's pure functions applied to arguments drawn from these
\* sets: speeds in km/h, distances in hectometres, minutes, "HH:MM" pairs
\* and instants of day 1.
EngineSpeeds == { 0, 1, 18, 40, 60 }
EngineDistances == { 0, 1, 2, 19, 20, 21, 50, 79, 80, 81, 100, 300 }
EngineMinutes == { 0, 1, 6, 7, 8, 10, 30, 1438 }
EngineDeadlines == { <<0, 0>>, <<8, 0>>, <<8, 2>>, <<23, 59>> }
EngineInstants ==
    { MS_PER_DAY + h * MS_PER_HOUR + ms :
        h \in { 0, 7, 8, 23 },
        ms \in { 0, 59999, 60000, 60001, 2 * MS_PER_MIN, 3 * MS_PER_MIN,
                 MS_PER_HOUR - 1 } }

EngineCalls ==
    { [ fn |-> "calculateMissChance", currentSpeedKmh |-> s, distanceKm |-> d,
        minutesRemaining |-> m ] :
        s \in EngineSpeeds, d \in EngineDistances, m \in EngineMinutes }
    \cup { [ fn |-> "parseTimeToday", hhmm |-> h, t |-> t ] :
             h \in EngineDeadlines, t \in EngineInstants }
    \cup { [ fn |-> "chooseRescueMode", distanceRemainingKm |-> d ] :
             d \in EngineDistances }

EngineInit ==
    /\ GuardianInit
    /\ engineCall \in EngineCalls
    /\ engineResult = null

CallMissChance ==
    /\ engineCall.fn = "calculateMissChance"
    /\ engineResult = null
    /\ engineResult' =
          [ value |-> calculateMissChance(engineCall.currentSpeedKmh,
                                          engineCall.distanceKm,
                                          engineCall.minutesRemaining) ]
    /\ UNCHANGED << engineCall, guardianVars >>

CallParseTimeToday ==
    /\ engineCall.fn = "parseTimeToday"
    /\ engineResult = null
    /\ engineResult' = [ value |-> parseTimeToday(engineCall.hhmm, engineCall.t) ]
    /\ UNCHANGED << engineCall, guardianVars >>

CallChooseRescueMode ==
    /\ engineCall.fn = "chooseRescueMode"
    /\ engineResult = null
    /\ engineResult' =
          [ value |-> chooseRescueMode(
                          [ distanceRemainingKm |-> engineCall.distanceRemainingKm ]) ]
    /\ UNCHANGED << engineCall, guardianVars >>

EngineNext ==
    \/ CallMissChance
    \/ CallParseTimeToday
    \/ CallChooseRescueMode

EngineSpec == EngineInit /\ [][EngineNext]_vars

\* ------------------------------------------------------------- properties
\* The leg handleGpsTick reads through its refs.
CurrentLeg == guardedLegsRef[currentLegIndexRef + 1]
HasCurrentLeg ==
    Len(guardedLegsRef) > 0 /\ currentLegIndexRef < Len(guardedLegsRef)

\* The step in which the computation p commits its alert, by either branch.
Commits(p) ==
    \E route \in RoutesFor(pipelines[p]) :
        PhrasingDone(p, route, TRUE) \/ FallbackRouteDone(p, route)

\* C1: within one session (no stopGuardian in between) two alert
\* computations never begin less than ALERT_COOLDOWN_MS apart.
C1_CooldownBetweenBegins ==
    \A i, j \in 1..Len(begins) :
        (i < j /\ ~begins[i].stopped /\ ~begins[j].stopped)
            => begins[j].at - begins[i].at >= ALERT_COOLDOWN_MS

\* Two computations have begun in one session.
C1_Witness ==
    /\ Len(begins) = 2
    /\ ~begins[1].stopped
    /\ ~begins[2].stopped
    /\ begins[2].at > begins[1].at

\* C2: at no time are two alert computations in flight at once.
C2_AtMostOneInFlight == Len(pipelines) <= 1

\* C3: the result of a computation that was in flight when stopGuardian ran
\* is discarded: committing it leaves the session state as it is and shows
\* no notification.
C3_StoppedResultDiscarded ==
    [][ \A p \in 1..Len(pipelines) :
            (pipelines[p].stopped /\ Commits(p))
                => (state' = state /\ alertShown' = alertShown) ]_vars

\* C4: the result of a computation begun for an earlier leg index than the
\* current one is discarded: activeAlert is not set from it.
C4_StaleLegResultDiscarded ==
    [][ \A p \in 1..Len(pipelines) :
            ( /\ ~pipelines[p].stopped
              /\ pipelines[p].legIdx < currentLegIndexRef
              /\ Commits(p) )
                => state'.activeAlert = state.activeAlert ]_vars

\* C5: when the phrasing requests fail, the computation still ends with
\* status alert and an alert whose message is the non-empty template text
\* of buildFallbackAiMessage for the alert's own tick, leg and plan.
C5_FallbackStillAlerts ==
    [][ \A p \in 1..Len(pipelines) : \A route \in RoutesFor(pipelines[p]) :
            FallbackRouteDone(p, route) =>
                LET q == pipelines[p]
                    plan == buildRescueRoute(q.lat, q.leg, q.tick, route)
                IN  /\ state'.status = "alert"
                    /\ state'.activeAlert # null
                    /\ state'.activeAlert.tick = q.tick
                    /\ state'.activeAlert.aiMessage =
                          buildFallbackAiMessage(q.tick, q.leg, plan.pickup.name,
                                                 plan.mode, plan.savingMin)
                    /\ Len(state'.activeAlert.aiMessage) > 0
                    /\ state'.activeAlert.aiMessage[1] =
                          "Traffic detected on your route. At your current speed"
                    /\ Len(pipelines') = Len(pipelines) - 1 ]_vars

\* A computation whose phrasing requests failed has committed its alert.
C5_Witness ==
    /\ lastOp = "fallbackCommitted"
    /\ state.status = "alert"
    /\ state.activeAlert # null
    /\ Len(state.activeAlert.aiMessage) > 0

\* C6: a sample below SAFE_THRESHOLD_PCT received in status alert clears
\* the alert and sets status watching; a sample from SAFE_THRESHOLD_PCT to
\* ALERT_THRESHOLD_PCT changes currentTick only.
C6_Hysteresis ==
    [][ \A coords \in Samples :
            (GpsTick(coords) /\ HasCurrentLeg) =>
                \A tick \in { buildTick(coords.lat, SpeedKmh(coords), CurrentLeg,
                                       now) } :
                LET pct == tick.missChancePct
                IN  /\ (pct < SAFE_THRESHOLD_PCT /\ state.status = "alert")
                        => ( /\ state'.status = "watching"
                             /\ state'.activeAlert = null )
                    /\ (pct >= SAFE_THRESHOLD_PCT /\ pct <= ALERT_THRESHOLD_PCT)
                        => ( /\ state' = [ state EXCEPT !.currentTick = tick ]
                             /\ UNCHANGED << pipelines, guardRefs, legRefs >> )
      ]_vars

\* A safe sample has cleared a raised alert.
C6_Witness ==
    /\ lastOp = "gpsSafeInAlert"
    /\ state.status = "watching"
    /\ state.activeAlert = null
    /\ state.currentTick # null
    /\ state.currentTick.missChancePct < SAFE_THRESHOLD_PCT

\* C7: a sample with minutesRemaining <= 0 on a leg that is not the last
\* advances the leg index by one, clears the alert, sets status watching
\* and starts no alert computation; on the last leg the index stays.
C7_LegAdvance ==
    [][ \A coords \in Samples :
            (GpsTick(coords) /\ HasCurrentLeg) =>
                \A tick \in { buildTick(coords.lat, SpeedKmh(coords), CurrentLeg,
                                       now) } :
                LET legIdx == currentLegIndexRef
                IN  tick.minutesRemaining <= 0 =>
                        IF legIdx < Len(guardedLegsRef) - 1
                        THEN /\ currentLegIndexRef' = legIdx + 1
                             /\ state'.currentLegIndex = legIdx + 1
                             /\ state'.activeAlert = null
                             /\ state'.status = "watching"
                             /\ UNCHANGED << pipelines, guardRefs, begins >>
                        ELSE /\ currentLegIndexRef' = legIdx
                             /\ state'.currentLegIndex = state.currentLegIndex
      ]_vars

\* A sample at the deadline of the first leg has advanced the session.
C7_Witness ==
    /\ lastOp = "gpsAdvance"
    /\ currentLegIndexRef = 1
    /\ state.currentLegIndex = 1
    /\ state.status = "watching"
    /\ state.currentTick.minutesRemaining <= 0

\* C8: stopGuardian resets all session state to the idle defaults, the leg
\* list and leg index the sample handler reads included, and clears the
\* notification throttle.
C8_StopResetsAll ==
    lastOp = "stopGuardian" =>
        /\ state = defaultState
        /\ locationSubscription = 0
        /\ lastAlertAt = 0
        /\ isProcessingAlert = FALSE
        /\ alertShown = FALSE
        /\ guardedLegsRef = << >>
        /\ currentLegIndexRef = 0

\* C9: dismissAlert sets activeAlert to null and status to watching and
\* changes nothing else.
C9_DismissFrame ==
    [][ DismissAlert =>
            /\ state' = [ state EXCEPT !.activeAlert = null,
                                       !.status = "watching" ]
            /\ UNCHANGED << subVars, legRefs, guardRefs, pipelines, notifVars >>
      ]_vars

\* An alert has been dismissed while the subscription is live.
C9_Witness ==
    /\ lastOp = "dismissAlert"
    /\ state.status = "watching"
    /\ state.activeAlert = null
    /\ state.currentTick # null
    /\ locationSubscription \in liveSubs
    /\ lastAlertAt > 0

\* C10: activatePivot sets status to pivoting and changes nothing else.
C10_ActivateFrame ==
    [][ ActivatePivot =>
            /\ state' = [ state EXCEPT !.status = "pivoting" ]
            /\ state'.activeAlert # null
            /\ UNCHANGED << subVars, legRefs, guardRefs, pipelines, notifVars >>
      ]_vars

\* An alert has been accepted and is still held.
C10_Witness ==
    /\ lastOp = "activatePivot"
    /\ state.status = "pivoting"
    /\ state.activeAlert # null
    /\ locationSubscription \in liveSubs

\* The call on its own has returned.
Returned(fn) == engineCall.fn = fn /\ engineResult # null

\* C15: calculateMissChance returns 2 whenever the distance is at most
\* 0.1 km, whatever the speed and the minutes remaining.
C15_AtConnectionAlwaysTwo ==
    (Returned("calculateMissChance")
        /\ engineCall.distanceKm <= AT_CONNECTION_HM)
        => engineResult.value = 2

\* C16: calculateMissChance returns an integer from 2 to 95 for every speed
\* (0 included), distance and minutes remaining, and 95 whenever at most 7
\* minutes remain.
C16_MissChanceRange ==
    Returned("calculateMissChance") =>
        /\ engineResult.value \in 2..95
        /\ engineCall.minutesRemaining <= BUFFER_MIN => engineResult.value = 95

\* The function has returned for a stationary user with the deadline inside
\* the buffer.
C16_Witness ==
    /\ Returned("calculateMissChance")
    /\ engineCall.currentSpeedKmh = 0
    /\ engineCall.distanceKm > AT_CONNECTION_HM
    /\ engineCall.minutesRemaining \in 1..BUFFER_MIN
    /\ engineResult.value = 95

\* C17: an "HH:MM" deadline resolves to today at HH:MM unless that instant
\* is more than 60 seconds before now, and then to exactly one day later;
\* the result is never more than 60 seconds in the past and never more than
\* 24 hours ahead.
C17_DeadlineResolution ==
    Returned("parseTimeToday") =>
        LET t == engineCall.t
            today == (t \div MS_PER_DAY) * MS_PER_DAY
                       + engineCall.hhmm[1] * MS_PER_HOUR
                       + engineCall.hhmm[2] * MS_PER_MIN
            resolved == engineResult.value
        IN  /\ t - today <= 60000 => resolved = today
            /\ t - today > 60000 => resolved = today + 24 * 3600000
            /\ t - resolved <= 60000
            /\ resolved - t <= 24 * 3600000

\* A deadline 60.001 seconds in the past has resolved to the next day.
C17_Witness ==
    /\ Returned("parseTimeToday")
    /\ engineCall.hhmm = <<8, 0>>
    /\ engineCall.t = MS_PER_DAY + 8 * MS_PER_HOUR + 60001
    /\ engineResult.value = 2 * MS_PER_DAY + 8 * MS_PER_HOUR

\* C18: the rescue mode depends on the distance remaining only: below 2 km
\* bike_taxi, above 8 km cab, anything else (2 km and 8 km included) auto.
C18_RescueModeBands ==
    Returned("chooseRescueMode") =>
        LET d == engineCall.distanceRemainingKm
        IN  engineResult.value =
                IF d < 20 THEN "bike_taxi" ELSE IF d > 80 THEN "cab" ELSE "auto"

\* The mode has been chosen for exactly 8 km.
C18_Witness ==
    /\ Returned("chooseRescueMode")
    /\ engineCall.distanceRemainingKm = 80
    /\ engineResult.value = "auto"

\* C11: startGuardian with an empty leg list, or with the location
\* permission not granted, changes nothing: session state, refs and
\* subscriptions stay as they are, and the call ends.
C11_StartWithoutEffect ==
    [][ /\ StartGuardian(<< >>)
            => UNCHANGED << state, subVars, legRefs, guardRefs, startVars,
                            pipelines, notifVars >>
        /\ \A c \in 1..Len(startCalls) :
               PermissionsResolved(c, FALSE)
                   => /\ UNCHANGED << state, subVars, legRefs, guardRefs,
                                      pipelines, notifVars >>
                      /\ Len(startCalls') = Len(startCalls) - 1
      ]_vars

\* A startGuardian call has ended on a denied permission: none is pending
\* and no call has ever passed the permission check.
C11_Witness ==
    /\ nStarts > 0
    /\ startCalls = << >>
    /\ guardedLegsRef = << >>
    /\ state = defaultState
    /\ liveSubs = {}
    /\ locationSubscription = 0

\* C12: at most one position subscription is live in every reachable state.
C12_OneLiveSubscription == Cardinality(liveSubs) <= 1

\* C13: from watching, a sample below SAFE_THRESHOLD_PCT moves the session
\* to status safe.
C13_SafeStatusEntered ==
    [][ \A coords \in Samples :
            (GpsTick(coords) /\ HasCurrentLeg /\ state.status = "watching") =>
                \A tick \in { buildTick(coords.lat, SpeedKmh(coords), CurrentLeg,
                                       now) } :
                    tick.missChancePct < SAFE_THRESHOLD_PCT
                        => state'.status = "safe" ]_vars

\* C19: the in-flight guard is released after every alert computation:
\* whenever no computation is running the guard is false.
C19_GuardReleased == Len(pipelines) = 0 => ~isProcessingAlert

\* A computation whose phrasing requests failed has ended in a session that
\* was not stopped, and none is running.
C19_Witness ==
    /\ lastOp = "fallbackCommitted"
    /\ Len(pipelines) = 0
    /\ ~isProcessingAlert
    /\ lastAlertAt > 0
    /\ ~begins[Len(begins)].stopped

\* A sample processed when no computation is running, more than
\* ALERT_COOLDOWN_MS after the last one began, with a tick above
\* ALERT_THRESHOLD_PCT.  (The model starts at most MaxPipelines computations.)
RiskyAfterCooldown(tick) ==
    /\ HasCurrentLeg
    /\ Len(begins) \in 1..(MaxPipelines - 1)
    /\ Len(pipelines) = 0
    /\ now - begins[Len(begins)].at > 3 * 60000
    /\ tick.missChancePct > ALERT_THRESHOLD_PCT

\* The handler has started a computation for tick and stamped it with now.
StartsComputation(tick) ==
    /\ Len(pipelines') = 1
    /\ pipelines'[1].tick = tick
    /\ lastAlertAt' = now
    /\ isProcessingAlert'
    /\ begins' = Append(begins, [ at |-> now, stopped |-> FALSE ])

ComputationRunning == \E p \in 1..Len(pipelines) : ~pipelines[p].stopped

\* C14: once a computation has been triggered on a session that is not
\* stopped, the session eventually shows an alert (status alert with a
\* non-null activeAlert), unless it is stopped first.
C14_AlertEventuallyShown ==
    ComputationRunning ~> (AlertSheetShown \/ lastOp = "stopGuardian")

\* C21: every sample processed while a leg is current sets currentTick to
\* the tick built from that sample, in every status and also while an alert
\* computation is in flight.
C21_TickAlwaysUpdated ==
    [][ \A coords \in Samples :
            (GpsTick(coords) /\ HasCurrentLeg) =>
                state'.currentTick =
                    buildTick(coords.lat, SpeedKmh(coords), CurrentLeg, now)
      ]_vars

\* While a computation is in flight, a later sample has replaced the tick
\* that triggered it.
C21_Witness ==
    /\ Len(pipelines) = 1
    /\ ~pipelines[1].stopped
    /\ state.status = "watching"
    /\ state.currentTick # null
    /\ state.currentTick # pipelines[1].tick

C23_StatusAlertConsistent ==
    /\ state.status = "alert" => state.activeAlert # null
    /\ state.activeAlert # null => state.status \in { "alert", "pivoting" }
    /\ state.status \in { "watching", "idle" } => state.activeAlert = null

\* The accepted alert is still held after a safe sample in status pivoting.
C23_Witness ==
    /\ state.status = "pivoting"
    /\ state.activeAlert # null
    /\ state.currentTick # null
    /\ state.currentTick.missChancePct < SAFE_THRESHOLD_PCT

\* C24: status is idle exactly when no monitoring is running: any other
\* status implies a live position subscription and a non-empty leg list,
\* and idle implies neither.
C24_IdleIffNoMonitoring ==
    /\ state.status # "idle" =>
          (liveSubs # {} /\ Len(state.guardedLegs) > 0)
    /\ state.status = "idle" =>
          (liveSubs = {} /\ Len(state.guardedLegs) = 0)

\* With a non-empty published leg list, the published index is within the
\* list and is the index the sample handler reads, from the same list.
PublishedIndexAgrees ==
    Len(state.guardedLegs) > 0 =>
        /\ 0 <= state.currentLegIndex
        /\ state.currentLegIndex < Len(state.guardedLegs)
        /\ state.currentLegIndex = currentLegIndexRef
        /\ state.guardedLegs = guardedLegsRef

\* C25: legs are consumed in order.  In every state with a non-empty
\* published leg list the published index is within the list and equals the
\* index the sample handler reads; within one session the index never
\* decreases and grows by at most one per step, and only in a sample step.
C25_LegsInOrder ==
    [][ /\ PublishedIndexAgrees'
        /\ lastOp' \notin { "permissionsGranted", "stopGuardian" } =>
              /\ currentLegIndexRef' \in
                    { currentLegIndexRef, currentLegIndexRef + 1 }
              /\ currentLegIndexRef' # currentLegIndexRef
                    => lastOp' = "gpsAdvance"
              /\ state'.currentLegIndex >= state.currentLegIndex
      ]_vars

\* The session has advanced to its last leg.
C25_Witness ==
    /\ Len(state.guardedLegs) = 2
    /\ state.currentLegIndex = 1
    /\ currentLegIndexRef = 1
    /\ lastOp = "gpsAdvance"

\* The deadline of leg as it stood at the first instant of the clock.
PlannedDeadline(leg) == parseTimeToday(leg.departureTime, T0)

\* The current leg's deadline has passed, an earlier sample of this session
\* was processed while it was still ahead, and a next leg exists.
DeadlinePassedWithNextLeg ==
    /\ HasCurrentLeg
    /\ currentLegIndexRef < Len(guardedLegsRef) - 1
    /\ now >= PlannedDeadline(CurrentLeg)
    /\ state.currentTick # null
    /\ state.currentTick.minutesRemaining > 0
    /\ state.currentTick.minutesRemaining <= MaxClock * (TimeStep \div MS_PER_MIN)

\* C26: once the current leg's deadline has passed and a next leg exists,
\* the first sample processed advances the session to the next leg, however
\* long after the deadline it arrives.
C26_AdvanceAfterDeadline ==
    [][ \A coords \in Samples :
            (GpsTick(coords) /\ DeadlinePassedWithNextLeg)
                => currentLegIndexRef' = currentLegIndexRef + 1 ]_vars

\* C27: every alert committed to activeAlert is accompanied by a
\* notification that is shown: when a computation of a session that was not
\* stopped commits, the notification service's throttle flag is clear, so
\* its sendPivotNotification call returns 'alert-shown'.
C27_CommittedAlertNotified ==
    [][ \A p \in 1..Len(pipelines) :
            ( /\ ~pipelines[p].stopped
              /\ Commits(p)
              /\ state'.activeAlert # state.activeAlert )
                => sendPivotNotification(alertShown, timers, now).result
                       = "alert-shown" ]_vars

\* C28: stopGuardian is final.  Right after it there is no live position
\* subscription, and the next step, unless it is a new startGuardian call,
\* leaves the session idle with no subscription, no tick and no new alert
\* computation.
C28_StopIsFinal ==
    [][ ( /\ lastOp = "stopGuardian"
          /\ ~(\E legs \in LegLists : StartGuardian(legs)) )
            => /\ liveSubs = {}
               /\ liveSubs' = {}
               /\ state'.status = "idle"
               /\ state'.currentTick = null
               /\ begins' = begins ]_vars

\* C29: once the session is pivoting, status stays pivoting and the
\* accepted alert stays in activeAlert until dismissAlert, stopGuardian, a
\* leg advance or a new start: no other step changes either.
C29_PivotingKept ==
    [][ ( /\ state.status = "pivoting"
          /\ \/ state'.status # "pivoting"
             \/ state'.activeAlert # state.activeAlert )
            => lastOp' \in { "dismissAlert", "stopGuardian", "gpsAdvance",
                             "permissionsGranted" } ]_vars

\* C30: an alert is never committed when the most recently processed sample
\* of the session had missChancePct below SAFE_THRESHOLD_PCT: after a safe
\* sample on the same leg, a computation in flight does not end by putting
\* the session in status alert with its alert.
C30_SafeSampleCancels ==
    [][ \A p \in 1..Len(pipelines) :
            ( /\ ~pipelines[p].stopped
              /\ pipelines[p].legIdx = currentLegIndexRef
              /\ state.currentTick # null
              /\ state.currentTick.missChancePct < SAFE_THRESHOLD_PCT
              /\ Commits(p) )
                => ~( /\ state'.status = "alert"
                      /\ state'.activeAlert # null
                      /\ state'.activeAlert.tick = pipelines[p].tick ) ]_vars

====
